---- MODULE Spec2Model ----
(***************************************************************************)
(* Model of the Mend eating/reflection signal engine:                      *)
(*   - FeedbackManager (app/services/feedback_manager.py) with the         *)
(*     Database history lookup (app/database.py) and the OmiClient         *)
(*     notification dispatch (app/services/omi_client.py);                 *)
(*   - SentimentAnalyzer (app/services/sentiment_analyzer.py);             *)
(*   - AudioProcessor (app/services/audio_processor.py).                   *)
(* Times are seconds.  An Optional value is a set with at most one         *)
(* element: None is the empty set.  fb is the record of the send_feedback  *)
(* call that has just returned; any other operation clears it.             *)
(* last_notified[u] is the time of the newest notification delivered to u. *)
(***************************************************************************)
EXTENDS Integers, Sequences, FiniteSets, TLC

VARIABLES now, events, last_notified, fb, ra, au, ru, tp, sends

vars == <<now, events, last_notified, fb, ra, au, ru, tp, sends>>

----------------------------------------------------------------------------
(* Bounds of the model *)

\* documents in the meal_events collection
MaxEvents == 2

\* the instants at which operations happen: with a cooldown of 300 seconds
\* they are 0, 100, 300 and 400 seconds apart
Instants == {0, 300, 400}

\* users owning documents of the collection
Users == {"u1", "u2"}

\* users send_feedback is called for; the code treats all users alike, so
\* one recipient stands for each of them
Recipients == {"u1"}

----------------------------------------------------------------------------
(* Program constants *)

\* Settings.feedback_cooldown_seconds
feedback_cooldown_seconds == 300

\* FeedbackManager.__init__: self.cooldown_seconds
cooldown_seconds == feedback_cooldown_seconds

None == {}

Some(x) == {x}

\* FeedbackManager.__init__: self.messages (the emoji of the texts left out)
messages ==
  [ slow_down |-> "Take a deep breath. Eating slowly helps digestion and mindfulness.",
    mindful   |-> "Great mindful eating! Keep up the awareness.",
    stressed  |-> "Notice any tension? Try taking a pause between bites.",
    rushed    |-> "Slow down. Enjoy each bite and savor your meal." ]

\* feedback types a caller passes: the four known ones and an unknown one
FeedbackTypes == {"slow_down", "mindful", "stressed", "rushed", "celebrate"}

\* a lookup without the default: an unknown type finds no text
GetMessageNoDefault(feedback_type) ==
  IF feedback_type \in DOMAIN messages
    THEN messages[feedback_type]
    ELSE ""

\* self.messages.get(feedback_type, self.messages["slow_down"])
GetMessage(feedback_type) ==
  IF feedback_type \in DOMAIN messages
    THEN messages[feedback_type]
    ELSE messages["slow_down"]

----------------------------------------------------------------------------
(* Database (Firestore collection meal_events) *)

\* how one history query ends: "ok"; "error": the query fails inside
\* Database.get_last_feedback_time, which catches it; "raises": an exception
\* reaches the handler of FeedbackManager._can_send_feedback
LookupOutcomes == {"ok", "error", "raises"}

\* fb when the last operation was not a send_feedback call
FbIdle ==
  [ status |-> "idle", uid |-> "u1", feedback_type |-> "slow_down",
    force |-> FALSE, lookups |-> 0, lookup |-> "ok",
    last_feedback_time |-> None, previous_notified |-> None,
    attempts |-> 0, message |-> "", dispatch |-> "none",
    result |-> FALSE ]

\* documents of uid with cue_sent == True
CueSentDocs(uid) ==
  {i \in DOMAIN events : events[i].uid = uid /\ events[i].cue_sent}

\* Database.get_last_feedback_time: newest cue_sent document of uid, limit 1
get_last_feedback_time(uid, outcome) ==
  IF outcome = "error"
    THEN None
    ELSE IF CueSentDocs(uid) = {}
      THEN None
      ELSE LET d == CHOOSE i \in CueSentDocs(uid) :
                      \A j \in CueSentDocs(uid) :
                        events[j].timestamp <= events[i].timestamp
           IN  Some(events[d].timestamp)

\* Database.create_meal_event: a new document, timestamp utcnow, cue_sent False
CreateMealEvent(uid) ==
  /\ Len(events) < MaxEvents
  /\ events' = Append(events, [uid |-> uid, timestamp |-> now, cue_sent |-> FALSE])
  /\ fb' = FbIdle
  /\ UNCHANGED <<now, last_notified, ra, au, ru, tp, sends>>

\* Database.mark_feedback_sent: cue_sent := True on one document
MarkFeedbackSent(event_id) ==
  /\ event_id \in DOMAIN events
  /\ ~events[event_id].cue_sent
  /\ events' = [events EXCEPT ![event_id].cue_sent = TRUE]
  /\ fb' = FbIdle
  /\ UNCHANGED <<now, last_notified, ra, au, ru, tp, sends>>

\* time passes (datetime.utcnow() grows)
Tick(t) ==
  /\ t > now
  /\ now' = t
  /\ fb' = FbIdle
  /\ UNCHANGED <<events, last_notified, ra, au, ru, tp, sends>>

----------------------------------------------------------------------------
(* OmiClient.send_notification *)

\* "200": delivered; "500": another status code; "exception": the post raises
Responses == {"200", "500", "exception"}

\* a client that reports a failure only for a status code other than 200
send_notification_status_only(response) == response # "500"

\* a client that takes any answer of the service for a delivery
send_notification_any_status(response) == response # "exception"

send_notification(response) == response = "200"

----------------------------------------------------------------------------
(* FeedbackManager *)

\* a strict comparison in place of >=
CooldownElapsedStrict(elapsed) == elapsed > cooldown_seconds

\* time_since_last.total_seconds() >= self.cooldown_seconds
CooldownElapsed(elapsed) == elapsed >= cooldown_seconds

\* a cooldown check that fails closed: no send when the lookup fails
can_send_feedback_fail_closed(uid, outcome) ==
  IF outcome \in {"raises", "error"}
    THEN FALSE
    ELSE LET last_feedback_time == get_last_feedback_time(uid, outcome)
         IN  IF last_feedback_time = None
               THEN TRUE
               ELSE \A t \in last_feedback_time : now - t >= cooldown_seconds

\* FeedbackManager._can_send_feedback
can_send_feedback(uid, outcome) ==
  IF outcome = "raises"
    THEN TRUE
    ELSE LET last_feedback_time == get_last_feedback_time(uid, outcome)
         IN  IF last_feedback_time = None
               THEN TRUE
               ELSE \A t \in last_feedback_time : CooldownElapsed(now - t)

\* a rate-limit test that forgets the force flag
RateLimitedIgnoringForce(uid, force, outcome) ==
  ~can_send_feedback(uid, outcome)

\* the rate-limit test of send_feedback: not force and not _can_send_feedback
RateLimited(uid, force, outcome) ==
  ~force /\ ~can_send_feedback(uid, outcome)

\* history lookups one send_feedback call performs (`and` short-circuits)
LookupsOf(force) == IF force THEN 0 ELSE 1

\* FeedbackManager.send_feedback, one complete call
SendFeedback(uid, feedback_type, force, outcome, response) ==
  /\ LET limited == RateLimited(uid, force, outcome)
         looked  == LookupsOf(force)
         message == GetMessage(feedback_type)
         success == send_notification(response)
     IN  /\ fb' = [ status |-> "returned", uid |-> uid,
                    feedback_type |-> feedback_type, force |-> force,
                    lookups |-> looked,
                    lookup |-> IF looked = 0 THEN "ok" ELSE outcome,
                    last_feedback_time |->
                      IF looked = 0 \/ outcome = "raises"
                        THEN None
                        ELSE get_last_feedback_time(uid, outcome),
                    previous_notified |-> last_notified[uid],
                    attempts |-> IF limited THEN 0 ELSE 1,
                    message |-> IF limited THEN "" ELSE message,
                    \* what became of the notification: the service
                    \* answered 200, or it answered another status or the
                    \* post raised
                    dispatch |-> IF limited THEN "none"
                                 ELSE IF response = "200" THEN "delivered"
                                 ELSE "failed",
                    result |-> IF limited THEN FALSE ELSE success ]
         /\ last_notified' =
              IF ~limited /\ success
                THEN [last_notified EXCEPT ![uid] = Some(now)]
                ELSE last_notified
  /\ UNCHANGED <<now, events, ra, au, ru, tp, sends>>

----------------------------------------------------------------------------
(* FeedbackManager.send_feedback, step by step.  On one event loop a      *)
(* coroutine runs until an await suspends it.  Database.                   *)
(* get_last_feedback_time is an async def around a blocking Firestore      *)
(* query, so awaiting it suspends nothing: from its start up to the        *)
(* client.post of send_notification a call runs in one step, and it        *)
(* resumes when the answer of the service arrives.                         *)

\* the send_feedback invocations in flight together
Callers == {1, 2}

CallIdle ==
  [ pc |-> "idle", uid |-> "u1", message |-> "", posted_at |-> None,
    overlapped |-> FALSE, result |-> FALSE ]

\* send_feedback (not forced) up to the await of client.post: the cooldown
\* check, then the message is chosen and the post issued, or the call
\* returns False; overlapped tells that another call was awaiting its post
BeginSendFeedback(c, uid, feedback_type, outcome) ==
  /\ sends[c].pc = "idle"
  /\ LET limited == RateLimited(uid, FALSE, outcome)
         inflight == \E d \in Callers \ {c} : sends[d].pc = "posting"
     IN  sends' =
           [sends EXCEPT ![c] =
              IF limited
                THEN [ pc |-> "done", uid |-> uid, message |-> "",
                       posted_at |-> None, overlapped |-> inflight,
                       result |-> FALSE ]
                ELSE [ pc |-> "posting", uid |-> uid,
                       message |-> GetMessage(feedback_type),
                       posted_at |-> Some(now), overlapped |-> inflight,
                       result |-> FALSE ]]
  /\ UNCHANGED <<now, events, last_notified, fb, ra, au, ru, tp>>

\* the post comes back: send_notification returns, send_feedback returns
\* its success
CompleteSendFeedback(c, response) ==
  /\ sends[c].pc = "posting"
  /\ sends' = [sends EXCEPT ![c].pc = "done",
                            ![c].result = send_notification(response)]
  /\ UNCHANGED <<now, events, last_notified, fb, ra, au, ru, tp>>

----------------------------------------------------------------------------
(* Strings.  A Python str is the sequence of its characters, so that      *)
(* lower() and the substring test `in` are computed character by          *)
(* character.                                                              *)

UpperCase ==
  <<"A","B","C","D","E","F","G","H","I","J","K","L","M",
    "N","O","P","Q","R","S","T","U","V","W","X","Y","Z">>

LowerCase ==
  <<"a","b","c","d","e","f","g","h","i","j","k","l","m",
    "n","o","p","q","r","s","t","u","v","w","x","y","z">>

\* the lower-case letter of each upper-case letter
LowerTable ==
  [c \in {UpperCase[i] : i \in DOMAIN UpperCase} |->
     LowerCase[CHOOSE i \in DOMAIN UpperCase : UpperCase[i] = c]]

LowerChar(c) == IF c \in DOMAIN LowerTable THEN LowerTable[c] ELSE c

\* str.lower()
Lower(s) == [i \in 1..Len(s) |-> LowerChar(s[i])]

\* sub in s
Contains(sub, s) ==
  \E k \in 0..(Len(s) - Len(sub)) :
    \A i \in 1..Len(sub) : s[k + i] = sub[i]

\* SentimentAnalyzer.__init__: self.reflection_keywords, in the order of the list
reflection_keywords ==
  << <<"f", "e", "e", "l">>,
     <<"f", "e", "l", "t">>,
     <<"f", "e", "e", "l", "i", "n", "g">>,
     <<"w", "a", "s">>,
     <<"w", "e", "r", "e">>,
     <<"s", "e", "e", "m", "e", "d">>,
     <<"t", "o", "o", " ", "f", "a", "s", "t">>,
     <<"t", "o", "o", " ", "s", "l", "o", "w">>,
     <<"r", "u", "s", "h", "e", "d">>,
     <<"m", "i", "n", "d", "f", "u", "l">>,
     <<"a", "w", "a", "r", "e">>,
     <<"n", "o", "t", "i", "c", "e", "d">>,
     <<"e", "n", "j", "o", "y", "e", "d">>,
     <<"s", "a", "t", "i", "s", "f", "y", "i", "n", "g">>,
     <<"s", "a", "t", "i", "s", "f", "i", "e", "d">>,
     <<"s", "t", "r", "e", "s", "s", "e", "d">>,
     <<"a", "n", "x", "i", "o", "u", "s">>,
     <<"c", "a", "l", "m">> >>

(* Reflection texts a caller passes *)

\* "hello"
Text_hello == <<"h", "e", "l", "l", "o">>

\* ""
Text_empty == <<>>

\* "i ate"
Text_i_ate == <<"i", " ", "a", "t", "e">>

\* "I FEEL"
Text_I_FEEL == <<"I", " ", "F", "E", "E", "L">>

\* "Calm"
Text_Calm == <<"C", "a", "l", "m">>

\* "wasabi"
Text_wasabi == <<"w", "a", "s", "a", "b", "i">>

\* "Too Fast"
Text_Too_Fast == <<"T", "o", "o", " ", "F", "a", "s", "t">>

\* "rushed was"
Text_rushed_was == <<"r", "u", "s", "h", "e", "d", " ", "w", "a", "s">>

\* "feeling"
Text_feeling == <<"f", "e", "e", "l", "i", "n", "g">>

\* "eating"
Text_eating == <<"e", "a", "t", "i", "n", "g">>

Texts ==
  { Text_hello,
    Text_empty,
    Text_i_ate,
    Text_I_FEEL,
    Text_Calm,
    Text_wasabi,
    Text_Too_Fast,
    Text_rushed_was,
    Text_feeling,
    Text_eating }

----------------------------------------------------------------------------
(* SentimentAnalyzer *)

\* SentimentType, by value
SentimentTypes == {"calm", "stressed", "neutral", "rushed", "mindful"}

\* the keys of _parse_sentiment's sentiment_map, each with its SentimentType
sentiment_map ==
  { << <<"c", "a", "l", "m">>, "calm" >>,
    << <<"s", "t", "r", "e", "s", "s", "e", "d">>, "stressed" >>,
    << <<"n", "e", "u", "t", "r", "a", "l">>, "neutral" >>,
    << <<"r", "u", "s", "h", "e", "d">>, "rushed" >>,
    << <<"m", "i", "n", "d", "f", "u", "l">>, "mindful" >> }

\* SentimentAnalyzer._parse_sentiment: sentiment_map.get(s.lower(), NEUTRAL)
parse_sentiment(sentiment_str) ==
  IF \E e \in sentiment_map : e[1] = Lower(sentiment_str)
    THEN (CHOOSE e \in sentiment_map : e[1] = Lower(sentiment_str))[2]
    ELSE "neutral"

\* SentimentAnalyzer._is_reflective
is_reflective(text) ==
  LET text_lower == Lower(text)
  IN  \E i \in DOMAIN reflection_keywords :
        Contains(reflection_keywords[i], text_lower)

\* SentimentAnalyzer._extract_keywords: the keywords found, in list order
RECURSIVE KeywordsFrom(_, _)
KeywordsFrom(i, text_lower) ==
  IF i > Len(reflection_keywords)
    THEN <<>>
    ELSE (IF Contains(reflection_keywords[i], text_lower)
            THEN <<reflection_keywords[i]>>
            ELSE <<>>) \o KeywordsFrom(i + 1, text_lower)

extract_keywords(text) == KeywordsFrom(1, Lower(text))

(* What the chat completion request of one call comes to.  kind:           *)
(*   "transport_error"  the request raises (network, timeout, API error)   *)
(*   "not_json"         the content is not JSON: json.loads raises         *)
(*   "not_object"       the content is JSON but no object: result.get      *)
(*                      raises                                             *)
(*   "object"           a JSON object with the members below               *)
(* sentiment: t is "absent", "str" (s the string), or "null"/"number".     *)
(* tone: t is "absent", "dict" (d the mapping, a set of <<key, score>>     *)
(* with scores in tenths), "bad_values" (a mapping with a value that is    *)
(* no number) or "null".                                                   *)

NoStr == <<>>

SentimentMembers ==
  { [t |-> "absent", s |-> NoStr],
    [t |-> "null", s |-> NoStr],
    [t |-> "number", s |-> NoStr],
    [t |-> "str", s |-> <<"c", "a", "l", "m">>],
    [t |-> "str", s |-> <<"S", "t", "r", "e", "s", "s", "e", "d">>],
    [t |-> "str", s |-> <<"n", "e", "u", "t", "r", "a", "l">>],
    [t |-> "str", s |-> <<"r", "u", "s", "h", "e", "d">>],
    [t |-> "str", s |-> <<"M", "I", "N", "D", "F", "U", "L">>],
    [t |-> "str", s |-> <<"h", "a", "p", "p", "y">>] }

ToneScores ==
  {<<"stressed_score", 8>>, <<"mindful_score", 1>>, <<"rushed_score", 3>>}

ToneMembers ==
  { [t |-> "absent", d |-> {}],
    [t |-> "null", d |-> {}],
    [t |-> "bad_values", d |-> {}],
    [t |-> "dict", d |-> {}],
    [t |-> "dict", d |-> {<<"stressed_score", 8>>}],
    [t |-> "dict", d |-> ToneScores] }

Completions ==
  { [kind |-> k, sentiment |-> [t |-> "absent", s |-> NoStr],
     tone |-> [t |-> "absent", d |-> {}]] :
      k \in {"transport_error", "not_json", "not_object"} }
  \cup
  { [kind |-> "object", sentiment |-> sm, tone |-> tm] :
      sm \in SentimentMembers, tm \in ToneMembers }

\* the pair the handler of _analyze_with_llm returns: NEUTRAL, {}
LlmFallback ==
  [raised |-> FALSE, sentiment |-> "neutral", tone |-> [t |-> "dict", d |-> {}]]

\* result.get("sentiment", "neutral"), parsed
SentimentOf(completion) ==
  IF completion.sentiment.t = "absent"
    THEN parse_sentiment(<<"n", "e", "u", "t", "r", "a", "l">>)
    ELSE parse_sentiment(completion.sentiment.s)

\* result.get("tone_indicators", {})
ToneOf(completion) ==
  IF completion.tone.t = "absent"
    THEN [t |-> "dict", d |-> {}]
    ELSE completion.tone

\* the request or the parsing of its response raises inside _analyze_with_llm:
\* json.loads, result.get on a non-object, lower() on a non-string
LlmRaises(completion) ==
  \/ completion.kind # "object"
  \/ completion.sentiment.t \in {"null", "number"}

\* an _analyze_with_llm without its handler: the exception leaves it
analyze_with_llm_unhandled(completion) ==
  IF LlmRaises(completion)
    THEN [raised |-> TRUE, sentiment |-> "neutral", tone |-> [t |-> "dict", d |-> {}]]
    ELSE [raised |-> FALSE, sentiment |-> SentimentOf(completion),
          tone |-> ToneOf(completion)]

\* an _analyze_with_llm that takes a response with a member missing, or with
\* a sentiment that is no label, for a failure: it keeps nothing of it
analyze_with_llm_all_or_nothing(completion) ==
  IF \/ LlmRaises(completion)
     \/ completion.sentiment.t = "absent"
     \/ completion.tone.t = "absent"
     \/ ~\E e \in sentiment_map : e[1] = Lower(completion.sentiment.s)
    THEN LlmFallback
    ELSE [raised |-> FALSE, sentiment |-> SentimentOf(completion),
          tone |-> ToneOf(completion)]

\* SentimentAnalyzer._analyze_with_llm, from the response on; raised tells
\* whether an exception leaves it
analyze_with_llm(completion) ==
  IF LlmRaises(completion)
    THEN LlmFallback
    ELSE [raised |-> FALSE, sentiment |-> SentimentOf(completion),
          tone |-> ToneOf(completion)]

\* ReflectionAnalysis.tone_indicators: dict[str, float], validated on construction
ValidToneIndicators(tone) == tone.t = "dict"

\* a default analysis that keeps the keywords of the text
DefaultAnalysisWithKeywords(text) ==
  [ text |-> text, sentiment |-> "neutral", is_reflective |-> FALSE,
    keywords |-> extract_keywords(text), tone_indicators |-> {} ]

\* the analysis of the short-circuit and of the exception handler
DefaultAnalysis(text) ==
  [ text |-> text, sentiment |-> "neutral", is_reflective |-> FALSE,
    keywords |-> <<>>, tone_indicators |-> {} ]

\* a request that is sent again when it fails in transport
RequestsIssuedWithRetry(text, completion) ==
  IF is_reflective(text)
    THEN (IF completion.kind = "transport_error" THEN 2 ELSE 1)
    ELSE 0

\* classification requests one analyze_reflection call issues
RequestsIssued(text, completion) ==
  IF is_reflective(text) THEN 1 ELSE 0

\* SentimentAnalyzer.analyze_reflection
analyze_reflection(text, completion) ==
  IF ~is_reflective(text)
    THEN DefaultAnalysis(text)
    ELSE LET llm == analyze_with_llm(completion)
             keywords == extract_keywords(text)
         IN  IF ~llm.raised /\ ValidToneIndicators(llm.tone)
               THEN [ text |-> text, sentiment |-> llm.sentiment,
                      is_reflective |-> TRUE, keywords |-> keywords,
                      tone_indicators |-> llm.tone.d ]
               \* an exception, as ReflectionAnalysis(...) raises on invalid
               \* tone_indicators: the handler of analyze_reflection
               ELSE DefaultAnalysis(text)

RaIdle ==
  [ status |-> "idle", text |-> <<>>,
    completion |-> [kind |-> "none", sentiment |-> [t |-> "absent", s |-> NoStr],
                    tone |-> [t |-> "absent", d |-> {}]],
    requests |-> 0, result |-> DefaultAnalysis(<<>>) ]

\* one complete analyze_reflection call; completion is what its request, if
\* it makes one, comes to
AnalyzeReflection(text, completion) ==
  /\ LET requests == RequestsIssued(text, completion)
     IN  ra' = [ status |-> "returned", text |-> text,
                 completion |-> IF requests = 0
                                  THEN RaIdle.completion ELSE completion,
                 requests |-> requests,
                 result |-> analyze_reflection(text, completion) ]
  /\ UNCHANGED <<now, events, last_notified, fb, au, ru, tp, sends>>

----------------------------------------------------------------------------
(* TranscriptProcessor *)

\* TranscriptProcessor.__init__: self.reflection_triggers
reflection_triggers ==
  << <<"i", " ", "f", "e", "e", "l">>,
     <<"i", " ", "f", "e", "l", "t">>,
     <<"t", "h", "a", "t", " ", "m", "e", "a", "l">>,
     <<"t", "h", "a", "t", " ", "w", "a", "s">>,
     <<"t", "o", "o", " ", "f", "a", "s", "t">>,
     <<"t", "o", "o", " ", "s", "l", "o", "w">>,
     <<"i", " ", "a", "t", "e">>,
     <<"e", "a", "t", "i", "n", "g">>,
     <<"m", "i", "n", "d", "f", "u", "l">>,
     <<"r", "u", "s", "h", "e", "d">> >>

\* segment texts of a TranscriptWebhookPayload
Seg_i == <<"i">>

Seg_ate == <<"a", "t", "e">>

Seg_I == <<"I">>

Seg_FEEL == <<"F", "E", "E", "L">>

Seg_that == <<"t", "h", "a", "t">>

\* payload.segments, as the sequence of the texts of the segments: no
\* segment, one segment, and two segments in either order
Transcripts ==
  { <<>>,
    <<Text_hello>>,
    <<Text_i_ate>>,
    <<Seg_i, Seg_ate>>,
    <<Seg_ate, Seg_i>>,
    <<Seg_I, Seg_FEEL>>,
    <<Seg_FEEL, Seg_I>>,
    <<Text_Calm>>,
    <<Text_Too_Fast>>,
    <<Text_eating>>,
    <<Text_wasabi>>,
    <<Seg_that, Text_wasabi>> }

RECURSIVE JoinFrom(_, _)

\* " ".join of the texts from the i-th on
JoinFrom(i, texts) ==
  IF i > Len(texts) THEN <<>>
  ELSE IF i = Len(texts) THEN texts[i]
  ELSE texts[i] \o <<" ">> \o JoinFrom(i + 1, texts)

\* full_text = " ".join([seg.text for seg in payload.segments])
Join(segments) == JoinFrom(1, segments)

\* a trigger test against the keyword list of the sentiment analyzer
is_reflection_by_keywords(text) ==
  LET text_lower == Lower(text)
  IN  \E i \in DOMAIN reflection_keywords :
        Contains(reflection_keywords[i], text_lower)

\* TranscriptProcessor._is_reflection
is_reflection(text) ==
  LET text_lower == Lower(text)
  IN  \E i \in DOMAIN reflection_triggers :
        Contains(reflection_triggers[i], text_lower)

\* analyze_reflection calls one process_transcript call makes
AnalyzerCalls(segments) == IF is_reflection(Join(segments)) THEN 1 ELSE 0

\* TranscriptProcessor.process_transcript: None, or Some(analysis)
process_transcript(segments, completion) ==
  LET full_text == Join(segments)
  IN  IF ~is_reflection(full_text)
        THEN None
        ELSE LET analysis == analyze_reflection(full_text, completion)
             IN  IF analysis.is_reflective THEN Some(analysis) ELSE None

TpIdle ==
  [ status |-> "idle", segments |-> <<>>, full_text |-> <<>>,
    analyzer_calls |-> 0, requests |-> 0,
    completion |-> RaIdle.completion, result |-> None ]

\* one complete process_transcript call; completion is what the
\* classification request, if one is made, comes to
ProcessTranscript(segments, completion) ==
  /\ LET full_text == Join(segments)
         calls == AnalyzerCalls(segments)
         requests == IF calls = 0 THEN 0
                     ELSE RequestsIssued(full_text, completion)
     IN  tp' = [ status |-> "returned", segments |-> segments,
                 full_text |-> full_text,
                 analyzer_calls |-> calls,
                 requests |-> requests,
                 completion |-> IF requests = 0
                                  THEN RaIdle.completion ELSE completion,
                 result |-> process_transcript(segments, completion) ]
  /\ UNCHANGED <<now, events, last_notified, fb, ra, au, ru, sends>>

----------------------------------------------------------------------------
(* AudioProcessor.  zcr_mean, rms_mean, the confidence and their          *)
(* thresholds are in hundredths, the spectral features in Hz.  The sum of *)
(* any of the weights 0.3, 0.3, 0.2, 0.2 in floating point, added in this *)
(* order, is the double nearest to the decimal sum, and 0.3 + 0.3 >= 0.6  *)
(* holds, so the hundredths are exact.                                     *)

\* AudioProcessor.__init__: self.eating_confidence_threshold = 0.6
eating_confidence_threshold == 60

\* AudioProcessor.__init__: self.energy_threshold = 0.02
energy_threshold == 2

\* longest audio buffer, in bytes
MaxBytes == 3

FeatureNames ==
  {"zcr_mean", "zcr_std", "rms_mean", "spectral_centroid", "spectral_rolloff"}

\* the mappings _extract_features returns when it succeeds: each feature
\* on its threshold or beyond it
ExtractedFeatures ==
  [ zcr_mean : {5, 15, 25},
    zcr_std : {1},
    rms_mean : {2, 5},
    spectral_centroid : {1000, 1500},
    spectral_rolloff : {2000, 2500} ]

\* feature mappings in general: some keys may be missing
FeatureMappings ==
  { [k \in D |-> f[k]] : f \in ExtractedFeatures, D \in SUBSET FeatureNames }

NoFeatures == [k \in {} |-> 0]

\* features.get(key, 0)
Get(features, key) == IF key \in DOMAIN features THEN features[key] ELSE 0

\* sum(confidence_factors)
Confidence(features) ==
    (IF 5 < Get(features, "zcr_mean") /\ Get(features, "zcr_mean") < 25
       THEN 30 ELSE 0)
  + (IF Get(features, "rms_mean") > energy_threshold THEN 30 ELSE 0)
  + (IF Get(features, "spectral_centroid") > 1000 THEN 20 ELSE 0)
  + (IF Get(features, "spectral_rolloff") > 2000 THEN 20 ELSE 0)

\* a detector that scores the empty mapping like any other
detect_eating_without_sentinel(features) ==
  [ eating_detected |-> Confidence(features) >= eating_confidence_threshold,
    confidence |-> Confidence(features), evaluated |-> 4 ]

\* a detector whose thresholds are inclusive
detect_eating_inclusive(features) ==
  IF DOMAIN features = {}
    THEN [eating_detected |-> FALSE, confidence |-> 0, evaluated |-> 0]
    ELSE LET confidence ==
                 (IF 5 <= Get(features, "zcr_mean") /\ Get(features, "zcr_mean") <= 25
                    THEN 30 ELSE 0)
               + (IF Get(features, "rms_mean") >= energy_threshold THEN 30 ELSE 0)
               + (IF Get(features, "spectral_centroid") >= 1000 THEN 20 ELSE 0)
               + (IF Get(features, "spectral_rolloff") >= 2000 THEN 20 ELSE 0)
         IN  [ eating_detected |-> confidence >= eating_confidence_threshold,
               confidence |-> confidence, evaluated |-> 4 ]

\* AudioProcessor._detect_eating; evaluated counts the predicates it tests
detect_eating(features) ==
  IF DOMAIN features = {}
    THEN [eating_detected |-> FALSE, confidence |-> 0, evaluated |-> 0]
    ELSE [ eating_detected |-> Confidence(features) >= eating_confidence_threshold,
           confidence |-> Confidence(features), evaluated |-> 4 ]

\* how _extract_features ends on a buffer: it raises inside and returns {},
\* or it returns the five features
Extractions == {NoFeatures} \cup ExtractedFeatures

\* np.frombuffer(audio_bytes, dtype=np.int16) raises unless the buffer is a
\* whole number of 16-bit samples
frombuffer_raises(nbytes) == nbytes % 2 # 0

AuIdle ==
  [ status |-> "idle", op |-> "none", nbytes |-> 0, features |-> NoFeatures,
    raised |-> FALSE, eating_detected |-> FALSE, confidence |-> 0,
    evaluated |-> 0 ]

\* one direct call of _detect_eating
DetectEating(features) ==
  /\ au' = [ status |-> "returned", op |-> "_detect_eating", nbytes |-> 0,
             features |-> features, raised |-> FALSE,
             eating_detected |-> detect_eating(features).eating_detected,
             confidence |-> detect_eating(features).confidence,
             evaluated |-> detect_eating(features).evaluated ]
  /\ UNCHANGED <<now, events, last_notified, fb, ra, ru, tp, sends>>

\* AudioProcessor.analyze_audio on a buffer of nbytes bytes; extracted is what
\* _extract_features returns if it is reached
AnalyzeAudio(nbytes, extracted) ==
  /\ au' = IF frombuffer_raises(nbytes)
             THEN [ status |-> "returned", op |-> "analyze_audio",
                    nbytes |-> nbytes, features |-> NoFeatures, raised |-> TRUE,
                    eating_detected |-> FALSE, confidence |-> 0, evaluated |-> 0 ]
             ELSE [ status |-> "returned", op |-> "analyze_audio",
                    nbytes |-> nbytes, features |-> extracted, raised |-> FALSE,
                    eating_detected |-> detect_eating(extracted).eating_detected,
                    confidence |-> detect_eating(extracted).confidence,
                    evaluated |-> detect_eating(extracted).evaluated ]
  /\ UNCHANGED <<now, events, last_notified, fb, ra, ru, tp, sends>>

----------------------------------------------------------------------------
(* FeedbackManager.should_send_rushed_feedback *)

\* the default of expected_duration
default_expected_duration == 900

\* largest of the small durations tried
MaxSmallDuration == 6

MealDurations == (0..MaxSmallDuration) \cup {400, 449, 450, 451, 500}

ExpectedDurations == (0..(MaxSmallDuration + 4)) \cup {900, 901}

\* expected_duration * 0.5: a float, kept as its number of halves (the
\* product by 0.5 is exact in floating point)
TimesHalf(expected_duration) == [halves |-> expected_duration]

\* int < float, which Python compares exactly
IntLessThan(n, x) == 2 * n < x.halves

\* a comparison with the integer half of expected_duration
should_send_rushed_feedback_floor(meal_duration, expected_duration) ==
  meal_duration < expected_duration \div 2

\* FeedbackManager.should_send_rushed_feedback
should_send_rushed_feedback(meal_duration, expected_duration) ==
  IntLessThan(meal_duration, TimesHalf(expected_duration))

RuIdle ==
  [ status |-> "idle", meal_duration |-> 0, expected_duration |-> 0,
    defaulted |-> FALSE, result |-> FALSE ]

\* one call with both arguments
ShouldSendRushedFeedback(meal_duration, expected_duration) ==
  /\ ru' = [ status |-> "returned", meal_duration |-> meal_duration,
             expected_duration |-> expected_duration, defaulted |-> FALSE,
             result |-> should_send_rushed_feedback(meal_duration,
                                                    expected_duration) ]
  /\ UNCHANGED <<now, events, last_notified, fb, ra, au, tp, sends>>

\* one call with expected_duration left to its default
ShouldSendRushedFeedbackDefault(meal_duration) ==
  /\ ru' = [ status |-> "returned", meal_duration |-> meal_duration,
             expected_duration |-> default_expected_duration,
             defaulted |-> TRUE,
             result |-> should_send_rushed_feedback(meal_duration,
                                                    default_expected_duration) ]
  /\ UNCHANGED <<now, events, last_notified, fb, ra, au, tp, sends>>

----------------------------------------------------------------------------

InitFeedback ==
  /\ now = 0
  /\ events = <<>>
  /\ last_notified = [u \in Users |-> None]
  /\ fb = FbIdle

InitSentiment == ra = RaIdle

InitAudio == au = AuIdle

InitRushed == ru = RuIdle

InitTranscript == tp = TpIdle

InitSends == sends = [c \in Callers |-> CallIdle]

Init ==
  /\ InitFeedback /\ InitSentiment /\ InitAudio /\ InitRushed
  /\ InitTranscript /\ InitSends

NextFeedback ==
  \/ \E t \in Instants : Tick(t)
  \/ \E u \in Users : CreateMealEvent(u)
  \/ \E e \in 1..MaxEvents : MarkFeedbackSent(e)
  \/ \E u \in Recipients, ft \in FeedbackTypes, r \in Responses :
       \/ SendFeedback(u, ft, TRUE, "ok", r)
       \/ \E o \in LookupOutcomes : SendFeedback(u, ft, FALSE, o, r)

SpecFeedback == Init /\ [][NextFeedback]_vars

\* the operations of NextFeedback with every send_feedback call non-forced,
\* its history lookup and its dispatch succeeding
NextCheckedSends ==
  \/ \E t \in Instants : Tick(t)
  \/ \E u \in Users : CreateMealEvent(u)
  \/ \E e \in 1..MaxEvents : MarkFeedbackSent(e)
  \/ \E u \in Recipients, ft \in FeedbackTypes :
       SendFeedback(u, ft, FALSE, "ok", "200")

SpecCheckedSends == Init /\ [][NextCheckedSends]_vars

\* the database operations, and two non-forced send_feedback calls for one
\* user whose steps interleave; the history lookups succeed
NextInterleaved ==
  \/ \E t \in Instants : Tick(t)
  \/ \E u \in Users : CreateMealEvent(u)
  \/ \E e \in 1..MaxEvents : MarkFeedbackSent(e)
  \/ \E c \in Callers, u \in Recipients :
       BeginSendFeedback(c, u, "slow_down", "ok")
  \/ \E c \in Callers, r \in Responses : CompleteSendFeedback(c, r)

SpecInterleaved == Init /\ [][NextInterleaved]_vars

NextSentiment ==
  \E text \in Texts, completion \in Completions :
    AnalyzeReflection(text, completion)

SpecSentiment == Init /\ [][NextSentiment]_vars

NextTranscript ==
  \E segments \in Transcripts, completion \in Completions :
    ProcessTranscript(segments, completion)

SpecTranscript == Init /\ [][NextTranscript]_vars

\* classification requests that fail: in transport, or with a response that
\* is not a JSON object
FailedCompletions == {c \in Completions : c.kind # "object"}

\* a text without and one with a reflection keyword
FailureTexts == {Text_hello, Text_I_FEEL}

\* a transcript with a trigger phrase only, and one with a keyword too
FailureTranscripts == {<<Text_i_ate>>, <<Seg_I, Seg_FEEL>>}

\* the four entry points with their collaborators failing: the history
\* lookup and the dispatch of send_feedback in every outcome, the
\* classification request failing, the feature extraction yielding nothing
NextFailures ==
  \/ \E u \in Recipients, o \in LookupOutcomes, r \in Responses :
       SendFeedback(u, "slow_down", FALSE, o, r)
  \/ \E text \in FailureTexts, completion \in FailedCompletions :
       AnalyzeReflection(text, completion)
  \/ \E segments \in FailureTranscripts, completion \in FailedCompletions :
       ProcessTranscript(segments, completion)
  \/ \E nbytes \in 0..MaxBytes : AnalyzeAudio(nbytes, NoFeatures)

SpecFailures == Init /\ [][NextFailures]_vars

NextAudio ==
  \/ \E features \in FeatureMappings : DetectEating(features)
  \/ \E nbytes \in 0..MaxBytes, extracted \in Extractions :
       AnalyzeAudio(nbytes, extracted)

SpecAudio == Init /\ [][NextAudio]_vars

NextRushed ==
  \/ \E m \in MealDurations, e \in ExpectedDurations :
       ShouldSendRushedFeedback(m, e)
  \/ \E m \in MealDurations : ShouldSendRushedFeedbackDefault(m)

SpecRushed == Init /\ [][NextRushed]_vars

----------------------------------------------------------------------------
(* Claims about FeedbackManager, checked under SpecFeedback *)

\* the call that has just returned was not forced and its lookup succeeded
FbChecked == fb.status = "returned" /\ ~fb.force /\ fb.lookup = "ok"

\* C1: a non-forced send_feedback whose history lookup returns no timestamp,
\* or one at least cooldown_seconds old (equality included), attempts
\* send_notification; one whose lookup returns a younger timestamp returns
\* False and never calls send_notification.
C1_CooldownDecidesSend ==
  FbChecked =>
    /\ fb.last_feedback_time = None => fb.attempts = 1
    /\ \A t \in fb.last_feedback_time :
         /\ now - t >= 300 => fb.attempts = 1
         /\ now - t < 300 => fb.attempts = 0 /\ fb.result = FALSE

\* a send attempted exactly cooldown_seconds after the last feedback
C1_Witness ==
  /\ FbChecked
  /\ \E t \in fb.last_feedback_time : now - t = 300
  /\ fb.attempts = 1

\* a send suppressed by a feedback 100 seconds old
C1_WitnessLimited ==
  /\ FbChecked
  /\ \E t \in fb.last_feedback_time : now - t = 100
  /\ fb.attempts = 0

\* C2 (under SpecCheckedSends): in a sequence of non-forced send_feedback
\* calls for one user, each with a successful history lookup and a
\* successful dispatch, two notifications dispatched to the user are at
\* least cooldown_seconds apart.
C2_DispatchesCooldownApart ==
  (FbChecked /\ fb.result) =>
    \A p \in fb.previous_notified : now - p >= cooldown_seconds

\* C3: when the history lookup fails (it raises, or errors inside the
\* database client) during a non-forced send_feedback, send_notification is
\* attempted, as when no prior feedback exists.
C3_LookupFailureFailsOpen ==
  (fb.status = "returned" /\ ~fb.force /\ fb.lookup \in {"error", "raises"}) =>
    /\ fb.attempts = 1
    /\ fb.message = GetMessage(fb.feedback_type)

\* the lookup fails while a feedback younger than the cooldown is on record
C3_Witness ==
  /\ fb.status = "returned" /\ ~fb.force /\ fb.lookup = "error"
  /\ \E i \in CueSentDocs(fb.uid) : now - events[i].timestamp < cooldown_seconds
  /\ fb.attempts = 1

\* C4: with force=true, send_feedback performs no history lookup and
\* attempts send_notification however recent the last feedback is.
C4_ForceBypassesRateLimit ==
  (fb.status = "returned" /\ fb.force) =>
    fb.lookups = 0 /\ fb.attempts = 1

\* a forced send while a feedback younger than the cooldown is on record
C4_Witness ==
  /\ fb.status = "returned" /\ fb.force
  /\ \E i \in CueSentDocs(fb.uid) : now - events[i].timestamp < cooldown_seconds
  /\ fb.attempts = 1 /\ fb.lookups = 0

\* the four feedback types self.messages has a text for
KnownFeedbackTypes == {"slow_down", "mindful", "stressed", "rushed"}

\* C11: the message a send_feedback call passes to send_notification is the
\* canned text of its feedback_type for slow_down, mindful, stressed and
\* rushed, and the slow_down text for any other type; an unknown type never
\* aborts the send: such a call is left undispatched by the cooldown alone.
C11_MessageIsCannedText ==
  fb.status = "returned" =>
    /\ fb.attempts = 1 =>
         fb.message =
           CASE fb.feedback_type = "slow_down" ->
                  "Take a deep breath. Eating slowly helps digestion and mindfulness."
             [] fb.feedback_type = "mindful" ->
                  "Great mindful eating! Keep up the awareness."
             [] fb.feedback_type = "stressed" ->
                  "Notice any tension? Try taking a pause between bites."
             [] fb.feedback_type = "rushed" ->
                  "Slow down. Enjoy each bite and savor your meal."
             [] OTHER ->
                  "Take a deep breath. Eating slowly helps digestion and mindfulness."
    /\ (fb.feedback_type \notin KnownFeedbackTypes /\ fb.attempts = 0) =>
         /\ ~fb.force /\ fb.lookup = "ok"
         /\ \E t \in fb.last_feedback_time : now - t < 300

\* a forced call with the unknown type "celebrate", dispatched with the
\* slow_down text
C11_Witness ==
  /\ fb.status = "returned" /\ fb.force
  /\ fb.feedback_type = "celebrate"
  /\ fb.attempts = 1
  /\ fb.message = messages["slow_down"]

\* the returned call was suppressed by the cooldown
FbSuppressed ==
  /\ FbChecked
  /\ \E t \in fb.last_feedback_time : now - t < cooldown_seconds

\* the returned call reached send_notification, which failed
FbDispatchFailed == fb.status = "returned" /\ fb.dispatch = "failed"

\* C12, as claimed: the caller can tell a send_feedback call suppressed by
\* the cooldown from one whose processing failed: a call whose dispatch
\* failed does not return what a suppressed call returns, False.
C12_SuppressedDistinctFromFailed ==
  /\ FbSuppressed => fb.result = FALSE
  /\ FbDispatchFailed => fb.result # FALSE

\* C12, amended: send_feedback returns False both when the cooldown
\* suppresses the call and when the dispatch fails, and True exactly when
\* the notification was delivered.
C12_SuppressedAndFailedReturnFalse ==
  /\ FbSuppressed => fb.result = FALSE
  /\ FbDispatchFailed => fb.result = FALSE
  /\ fb.status = "returned" => (fb.result = TRUE <=> fb.dispatch = "delivered")

\* a non-forced call, permitted by the cooldown, whose dispatch failed
C12_Witness ==
  /\ FbChecked
  /\ FbDispatchFailed
  /\ fb.attempts = 1
  /\ fb.result = FALSE

\* a suppressed call: the same False
C12_WitnessSuppressed ==
  /\ FbSuppressed
  /\ fb.attempts = 0
  /\ fb.result = FALSE

----------------------------------------------------------------------------
(* Claims about SentimentAnalyzer, checked under SpecSentiment *)

\* the texts of Texts that hold a reflection keyword, read off the list:
\* "feel", "calm", "was", "too fast", "was" and "rushed", "feel" and "feeling"
TextsWithKeyword ==
  { Text_I_FEEL, Text_Calm, Text_wasabi, Text_Too_Fast, Text_rushed_was,
    Text_feeling }

\* the request of the returned call failed in transport, or its response
\* could not be parsed
RaRequestFailed ==
  /\ ra.status = "returned"
  /\ ra.requests > 0
  /\ ra.completion.kind \in {"transport_error", "not_json", "not_object"}

\* C5: analyze_reflection issues exactly one classification request when the
\* text holds a reflection keyword and none when it holds none; a failed
\* request is not retried.
C5_OneRequestWhenReflective ==
  ra.status = "returned" =>
    ra.requests = (IF ra.text \in TextsWithKeyword THEN 1 ELSE 0)

\* a call whose single request failed in transport
C5_Witness ==
  /\ RaRequestFailed
  /\ ra.completion.kind = "transport_error"
  /\ ra.requests = 1

\* C6, as claimed: when the request for a reflective text fails in transport
\* or its response cannot be parsed, analyze_reflection returns the
\* all-default analysis: neutral, is_reflective false, no keywords, no tone
\* indicators.
C6_FailureGivesDefaultAnalysis ==
  RaRequestFailed =>
    /\ ra.result.sentiment = "neutral"
    /\ ra.result.is_reflective = FALSE
    /\ ra.result.keywords = <<>>
    /\ ra.result.tone_indicators = {}

\* C6, amended: in that case the analysis has sentiment neutral and no tone
\* indicators, but is_reflective is true and keywords holds the keywords
\* found in the text.
C6_FailureKeepsReflectiveAndKeywords ==
  RaRequestFailed =>
    /\ ra.result.sentiment = "neutral"
    /\ ra.result.tone_indicators = {}
    /\ ra.result.is_reflective = TRUE
    /\ ra.result.keywords # <<>>
    /\ \A i \in DOMAIN ra.result.keywords :
         Contains(ra.result.keywords[i], Lower(ra.text))

\* an unparsable response for a text with two keywords
C6_Witness ==
  /\ RaRequestFailed
  /\ ra.completion.kind = "not_json"
  /\ Len(ra.result.keywords) = 2

\* C7: every analysis analyze_reflection returns with is_reflective false has
\* sentiment neutral, no keywords and no tone indicators.
C7_NotReflectiveImpliesDefaults ==
  (ra.status = "returned" /\ ~ra.result.is_reflective) =>
    /\ ra.result.sentiment = "neutral"
    /\ ra.result.keywords = <<>>
    /\ ra.result.tone_indicators = {}

\* a not-reflective analysis from the exception handler: the text holds a
\* keyword, the request was made, the response's tone_indicators are invalid
C7_Witness ==
  /\ ra.status = "returned"
  /\ ra.requests = 1
  /\ ra.text \in TextsWithKeyword
  /\ ra.completion.tone.t \in {"null", "bad_values"}
  /\ ~ra.result.is_reflective

\* the five sentiment labels, as strings
LabelStrings ==
  { <<"c", "a", "l", "m">>,
    <<"s", "t", "r", "e", "s", "s", "e", "d">>,
    <<"n", "e", "u", "t", "r", "a", "l">>,
    <<"r", "u", "s", "h", "e", "d">>,
    <<"m", "i", "n", "d", "f", "u", "l">> }

\* the call made its request and the response parsed as a JSON object
RaParsedObject ==
  /\ ra.status = "returned"
  /\ ra.requests = 1
  /\ ra.completion.kind = "object"

\* the sentiment member is a string that is none of the five labels, letter
\* case aside
RaUnknownSentiment ==
  /\ ra.completion.sentiment.t = "str"
  /\ Lower(ra.completion.sentiment.s) \notin LabelStrings

C14_WitnessNoTone ==
  /\ RaParsedObject
  /\ ra.completion.sentiment.s = <<"r", "u", "s", "h", "e", "d">>
  /\ ra.completion.tone.t = "absent"
  /\ ra.result.sentiment = "rushed"
  /\ ra.result.tone_indicators = {}

----------------------------------------------------------------------------
(* Claims about AudioProcessor, checked under SpecAudio *)

ZcrSatisfied(f) ==
  "zcr_mean" \in DOMAIN f /\ f["zcr_mean"] > 5 /\ f["zcr_mean"] < 25

RmsSatisfied(f) == "rms_mean" \in DOMAIN f /\ f["rms_mean"] > 2

CentroidSatisfied(f) ==
  "spectral_centroid" \in DOMAIN f /\ f["spectral_centroid"] > 1000

RolloffSatisfied(f) ==
  "spectral_rolloff" \in DOMAIN f /\ f["spectral_rolloff"] > 2000

Weight(satisfied, w) == IF satisfied THEN w ELSE 0

\* C8: for a non-empty feature mapping, the confidence is the sum of the
\* weights of the satisfied predicates (0.3 for 0.05 < zcr_mean < 0.25, 0.3
\* for rms_mean > energy_threshold, 0.2 for spectral_centroid > 1000, 0.2 for
\* spectral_rolloff > 2000, all strict), and eating_detected is
\* confidence >= 0.6: all four give 1.0 and detected, none gives 0.0 and not
\* detected.
C8_ConfidenceIsSumOfWeights ==
  (au.status = "returned" /\ DOMAIN au.features # {}) =>
    LET f == au.features
        all == /\ ZcrSatisfied(f) /\ RmsSatisfied(f)
               /\ CentroidSatisfied(f) /\ RolloffSatisfied(f)
        none == /\ ~ZcrSatisfied(f) /\ ~RmsSatisfied(f)
                /\ ~CentroidSatisfied(f) /\ ~RolloffSatisfied(f)
    IN  /\ au.confidence =
               Weight(ZcrSatisfied(f), 30) + Weight(RmsSatisfied(f), 30)
             + Weight(CentroidSatisfied(f), 20) + Weight(RolloffSatisfied(f), 20)
        /\ au.eating_detected = (au.confidence >= 60)
        /\ all => au.confidence = 100 /\ au.eating_detected
        /\ none => au.confidence = 0 /\ ~au.eating_detected

\* the two 0.3 predicates alone, the spectral features on their thresholds:
\* confidence 0.6, detected
C8_Witness ==
  /\ au.status = "returned"
  /\ DOMAIN au.features = FeatureNames
  /\ ZcrSatisfied(au.features) /\ RmsSatisfied(au.features)
  /\ au.features["spectral_centroid"] = 1000
  /\ au.features["spectral_rolloff"] = 2000
  /\ au.confidence = 60 /\ au.eating_detected

\* C9: when feature extraction yields the empty mapping, or analyze_audio
\* fails on an empty or malformed buffer, the result has eating_detected
\* false and confidence 0.0, and no predicate is evaluated.
C9_EmptyOrMalformedNotDetected ==
  (/\ au.status = "returned"
   /\ \/ DOMAIN au.features = {}
      \/ au.raised
      \/ (au.op = "analyze_audio" /\ au.nbytes % 2 = 1)) =>
    /\ au.eating_detected = FALSE
    /\ au.confidence = 0
    /\ au.evaluated = 0

\* analyze_audio on the empty buffer, extraction yielding the empty mapping
C9_Witness ==
  /\ au.status = "returned" /\ au.op = "analyze_audio"
  /\ au.nbytes = 0 /\ ~au.raised
  /\ DOMAIN au.features = {}
  /\ ~au.eating_detected /\ au.confidence = 0

\* analyze_audio on a buffer of an odd number of bytes
C9_WitnessMalformed ==
  /\ au.status = "returned" /\ au.op = "analyze_audio"
  /\ au.nbytes % 2 = 1 /\ au.raised
  /\ ~au.eating_detected /\ au.confidence = 0

----------------------------------------------------------------------------
(* Claim about should_send_rushed_feedback, checked under SpecRushed *)

\* C10: should_send_rushed_feedback returns true exactly when meal_duration
\* is below half of expected_duration, strictly (a meal of exactly half is
\* not rushed), for odd expected durations too; expected_duration defaults
\* to 900.
C10_RushedIffBelowHalf ==
  ru.status = "returned" =>
    LET m == ru.meal_duration
        e == ru.expected_duration
    IN  /\ ru.result =
             (\/ m < e \div 2
              \/ (m = e \div 2 /\ e % 2 = 1))
        /\ ru.defaulted => e = 900
        /\ (m = 400 /\ e = 900) => ru.result
        /\ (m = 500 /\ e = 900) => ~ru.result
        /\ (m + m = e) => ~ru.result

\* a meal of 4 seconds against an expected 9: 4 < 4.5, rushed
C10_Witness ==
  /\ ru.status = "returned"
  /\ ru.meal_duration = 4 /\ ru.expected_duration = 9
  /\ ru.result

\* a meal of exactly half the default expected duration: not rushed
C10_WitnessHalf ==
  /\ ru.status = "returned" /\ ru.defaulted
  /\ ru.meal_duration = 450
  /\ ~ru.result

----------------------------------------------------------------------------
(* Claim about interleaved send_feedback calls, checked under             *)
(* SpecInterleaved                                                         *)

\* C16: when two non-forced send_feedback calls for the same user
\* interleave at their await points, at most one of them dispatches a
\* notification within one cooldown window: if a call that began while the
\* other awaited its post dispatches too, the two posts are at least
\* cooldown_seconds apart.
C16_OneDispatchPerWindow ==
  \A c \in Callers, d \in Callers :
    (/\ c # d
     /\ sends[c].uid = sends[d].uid
     /\ sends[d].overlapped
     /\ sends[c].pc = "done" /\ sends[c].result
     /\ sends[d].pc = "done" /\ sends[d].result) =>
      \A s \in sends[c].posted_at, t \in sends[d].posted_at :
        t - s >= cooldown_seconds

----------------------------------------------------------------------------
(* Claim about TranscriptProcessor, checked under SpecTranscript *)

\* the transcripts of Transcripts whose joined text holds a trigger phrase,
\* read off the list: "i ate" (in one segment and across two), "i feel",
\* "too fast", "eating", "that was"
TranscriptsWithTrigger ==
  { <<Text_i_ate>>, <<Seg_i, Seg_ate>>, <<Seg_I, Seg_FEEL>>,
    <<Text_Too_Fast>>, <<Text_eating>>, <<Seg_that, Text_wasabi>> }

\* those of them whose text holds no keyword of the sentiment analyzer
TranscriptsWithTriggerOnly ==
  { <<Text_i_ate>>, <<Seg_i, Seg_ate>>, <<Text_eating>> }

\* C15: process_transcript invokes the tone classifier (analyze_reflection)
\* only when the text of the segments, joined in array order, holds a
\* reflection trigger phrase, and returns an analysis only when that
\* analysis has is_reflective true; a text with a trigger but no classifier
\* keyword, such as "i ate", yields None with no classification request.
C15_ClassifierBehindTrigger ==
  tp.status = "returned" =>
    /\ tp.analyzer_calls =
         (IF tp.segments \in TranscriptsWithTrigger THEN 1 ELSE 0)
    /\ tp.analyzer_calls = 0 => (tp.requests = 0 /\ tp.result = None)
    /\ tp.requests <= tp.analyzer_calls
    /\ \A analysis \in tp.result :
         /\ analysis.is_reflective = TRUE
         /\ analysis.text = tp.full_text
         /\ tp.requests = 1
    /\ tp.segments \in TranscriptsWithTriggerOnly =>
         (tp.analyzer_calls = 1 /\ tp.requests = 0 /\ tp.result = None)
    /\ tp.segments = <<Seg_i, Seg_ate>> => tp.full_text = Text_i_ate

\* the segments "i" and "ate": the trigger "i ate" spans them, the
\* classifier is invoked, finds no keyword and makes no request; None
C15_Witness ==
  /\ tp.status = "returned"
  /\ tp.segments = <<Seg_i, Seg_ate>>
  /\ tp.full_text = Text_i_ate
  /\ tp.analyzer_calls = 1
  /\ tp.requests = 0
  /\ tp.result = None

\* the segments "I" and "FEEL", the response an object: an analysis returned
C15_WitnessAnalysis ==
  /\ tp.status = "returned"
  /\ tp.segments = <<Seg_I, Seg_FEEL>>
  /\ tp.requests = 1
  /\ \E analysis \in tp.result :
       analysis.is_reflective /\ analysis.sentiment = "mindful"

----------------------------------------------------------------------------
(* Claim about failing collaborators, checked under SpecFailures *)

\* the classification request of the returned process_transcript call
\* failed in transport, or its response could not be parsed
TpRequestFailed ==
  /\ tp.status = "returned"
  /\ tp.requests > 0
  /\ tp.completion.kind \in {"transport_error", "not_json", "not_object"}

\* the returned analyze_audio call failed: on its buffer, or in the feature
\* extraction
AuFailed ==
  /\ au.status = "returned" /\ au.op = "analyze_audio"
  /\ (au.raised \/ DOMAIN au.features = {})

\* the history lookup of the returned send_feedback call failed
FbLookupFailed ==
  fb.status = "returned" /\ ~fb.force /\ fb.lookup \in {"error", "raises"}

\* no operation has let an error out: each has yet to be called or returned
AllReturned ==
  /\ fb.status \in {"idle", "returned"}
  /\ ra.status \in {"idle", "returned"}
  /\ tp.status \in {"idle", "returned"}
  /\ au.status \in {"idle", "returned"}

\* C13, as claimed: when a collaborator fails, send_feedback,
\* analyze_reflection, process_transcript and analyze_audio each return their
\* default result and let no error out: False for a failed dispatch, the
\* all-default analysis and None for a failed classification request,
\* not-detected for a failed audio analysis.
C13_FailuresGiveDefaultResults ==
  /\ AllReturned
  /\ FbDispatchFailed => fb.result = FALSE
  /\ RaRequestFailed => ra.result = DefaultAnalysis(ra.text)
  /\ TpRequestFailed => tp.result = None
  /\ AuFailed => (au.eating_detected = FALSE /\ au.confidence = 0)

\* C13, amended: each of them returns and lets no error out; a failed
\* dispatch makes send_feedback return False; a failed history lookup lets
\* the send go on, its result being that of the dispatch; a failed
\* classification request gives a neutral analysis without tone indicators
\* whose is_reflective is true, and process_transcript returns that analysis,
\* not None; a failed audio analysis gives not-detected with confidence 0.
C13_FailuresGiveDefinedResults ==
  /\ AllReturned
  /\ FbDispatchFailed => fb.result = FALSE
  /\ FbLookupFailed =>
       (fb.attempts = 1 /\ fb.result = (fb.dispatch = "delivered"))
  /\ RaRequestFailed =>
       /\ ra.result.sentiment = "neutral"
       /\ ra.result.tone_indicators = {}
       /\ ra.result.is_reflective = TRUE
  /\ TpRequestFailed =>
       /\ tp.result # None
       /\ \A analysis \in tp.result :
            /\ analysis.text = tp.full_text
            /\ analysis.sentiment = "neutral"
            /\ analysis.tone_indicators = {}
            /\ analysis.is_reflective = TRUE
  /\ AuFailed => (au.eating_detected = FALSE /\ au.confidence = 0)

\* every operation has returned with a collaborator failing: the dispatch
\* after a failed lookup, the classification request of both analyses, the
\* audio buffer
C13_Witness ==
  /\ FbLookupFailed /\ FbDispatchFailed /\ fb.result = FALSE
  /\ RaRequestFailed /\ ra.completion.kind = "transport_error"
  /\ TpRequestFailed /\ tp.result # None
  /\ AuFailed /\ au.raised

====
